---- MODULE Spec2Model ----
(***************************************************************************)
(* Memento Auth API (src/azure_adls.py): signup / signin / profile over    *)
(* one JSON file per user in an ADLS Gen2 directory.                       *)
(*                                                                         *)
(* Text is a sequence of tokens; a token stands for one character of user  *)
(* data or for one fixed block of characters of a literal ("User already   *)
(* exists", ": ", ".json").  Modelled domain: ASCII text without control   *)
(* characters, passwords inside bcrypt's input domain (at most 72 bytes,   *)
(* no NUL), emails already validated by the framework.                     *)
(***************************************************************************)
EXTENDS Integers, Sequences, FiniteSets, Bags, TLC

VARIABLES
    fsExists,      \* the file system FILE_SYSTEM_NAME exists in the account
    dirExists,     \* the directory DIRECTORY_NAME exists in it
    files,         \* file name -> the file at that path of the directory
    startPc,       \* where the process is in its lifespan hook
    inflight,      \* the bag of signup requests inside write_user_record
    last,          \* the request the latest step answered, with its response
    okLog,         \* history: email -> the signups answered {ok: true}
    issued,        \* history: email -> a signup was issued for it
    overlapped,    \* history: email -> two signups for it were in flight
    writeOverlap   \* history: email -> two writes of its file interleaved

vars == <<fsExists, dirExists, files, startPc, inflight, last, okLog,
          issued, overlapped, writeOverlap>>

(***************************************************************************)
(* Bounds                                                                  *)
(***************************************************************************)
\* number of signup requests that can be in flight at the same time
MaxInFlight == 2

(***************************************************************************)
(* Text                                                                    *)
(***************************************************************************)
Quote == "\""
Backslash == "\\"

Lit(s) == <<s>>

RECURSIVE IsPrefixAt(_, _, _)
IsPrefixAt(sub, text, i) ==
    IF sub = <<>> THEN TRUE
    ELSE IF i > Len(text) THEN FALSE
    ELSE text[i] = Head(sub) /\ IsPrefixAt(Tail(sub), text, i + 1)

\* sub occurs in text as a contiguous run of characters
Contains(text, sub) ==
    \E i \in 1..(Len(text) + 1) : IsPrefixAt(sub, text, i)

(***************************************************************************)
(* Request inputs                                                          *)
(***************************************************************************)
EmailA == <<"a", "@", "x.com">>
EmailB == <<"b", "@", "x.com">>
Emails == { EmailA, EmailB }

Date(y, m, d) == [year |-> y, month |-> m, day |-> d]

\* SignupRequest bodies without the email (name, password, dob)
BodyA == [name |-> <<"A">>, password |-> <<"p">>, dob |-> Date(1990, 1, 1)]
BodyB == [name |-> <<"B", Quote, Backslash>>, password |-> <<"q">>,
          dob |-> Date(2001, 12, 31)]
SignupBodies == { BodyA, BodyB }

\* the signup requests issued: both bodies for one email, one for the other
SignupRequests ==
    { <<EmailA, BodyA>>, <<EmailA, BodyB>>, <<EmailB, BodyB>> }

\* passwords a signin may submit: the signup passwords and one never used
Passwords == { <<"p">>, <<"q">>, <<"z">> }

\* the values bcrypt.gensalt() can return
Salts == { "s" }

(***************************************************************************)
(* str(req.dob): datetime.date.__str__ is isoformat(), "%04d-%02d-%02d"    *)
(***************************************************************************)
Digits == <<"0", "1", "2", "3", "4", "5", "6", "7", "8", "9">>

Digit(n) == Digits[n + 1]

Pad2(n) == <<Digit((n \div 10) % 10), Digit(n % 10)>>

Pad4(n) == <<Digit((n \div 1000) % 10), Digit((n \div 100) % 10)>> \o Pad2(n)

\* the date without zero padding
DateStr_unpadded(dob) ==
    Pad4(dob.year) \o <<"-">> \o <<Digit(dob.month % 10)>> \o <<"-">>
    \o <<Digit(dob.day % 10)>>

DateStr(dob) ==
    Pad4(dob.year) \o <<"-">> \o Pad2(dob.month) \o <<"-">> \o Pad2(dob.day)

(***************************************************************************)
(* dict: a Python dict of str -> str, as the sequence of its <<key,value>> *)
(* items in insertion order.                                               *)
(***************************************************************************)
DictKeys(d) == [i \in 1..Len(d) |-> d[i][1]]

DictHas(d, k) == \E i \in 1..Len(d) : d[i][1] = k

\* d.get(k, default)
DictGet(d, k, default) ==
    IF DictHas(d, k)
    THEN d[CHOOSE i \in 1..Len(d) : d[i][1] = k][2]
    ELSE default

\* d[k] = v: a key already present keeps its position
DictPut(d, k, v) ==
    IF DictHas(d, k)
    THEN [i \in 1..Len(d) |-> IF d[i][1] = k THEN <<k, v>> ELSE d[i]]
    ELSE Append(d, <<k, v>>)

(***************************************************************************)
(* json.dumps / json.loads on a flat dict of strings                       *)
(***************************************************************************)
\* string contents written as they are
JsonEscape_raw(s) == s

RECURSIVE JsonEscape(_)
JsonEscape(s) ==
    IF s = <<>> THEN <<>>
    ELSE (IF Head(s) \in {Quote, Backslash}
          THEN <<Backslash, Head(s)>>
          ELSE <<Head(s)>>) \o JsonEscape(Tail(s))

JsonString(s) == <<Quote>> \o JsonEscape(s) \o <<Quote>>

RECURSIVE JsonMembers(_)
JsonMembers(d) ==
    IF d = <<>> THEN <<>>
    ELSE JsonString(d[1][1]) \o <<": ">> \o JsonString(d[1][2])
         \o (IF Len(d) > 1 THEN <<", ">> ELSE <<>>)
         \o JsonMembers(Tail(d))

json_dumps(d) == <<"{">> \o JsonMembers(d) \o <<"}">>

JsonFail == [ok |-> FALSE, val |-> <<>>, next |-> 0]

\* scan a string body from position i (just after the opening quote)
RECURSIVE ScanString(_, _, _)
ScanString(raw, i, acc) ==
    IF i > Len(raw) THEN JsonFail
    ELSE IF raw[i] = Quote THEN [ok |-> TRUE, val |-> acc, next |-> i + 1]
    ELSE IF raw[i] = Backslash
         THEN IF i + 1 <= Len(raw) /\ raw[i + 1] \in {Quote, Backslash}
              THEN ScanString(raw, i + 2, Append(acc, raw[i + 1]))
              ELSE JsonFail
    ELSE ScanString(raw, i + 1, Append(acc, raw[i]))

ParseString(raw, i) ==
    IF i <= Len(raw) /\ raw[i] = Quote THEN ScanString(raw, i + 1, <<>>)
    ELSE JsonFail

\* members of an object from position i, acc the dict built so far
RECURSIVE ParseMembers(_, _, _)
ParseMembers(raw, i, acc) ==
    LET k == ParseString(raw, i) IN
    IF ~k.ok \/ k.next > Len(raw) \/ raw[k.next] # ": " THEN JsonFail
    ELSE LET v == ParseString(raw, k.next + 1) IN
         IF ~v.ok \/ v.next > Len(raw) THEN JsonFail
         ELSE LET d == DictPut(acc, k.val, v.val) IN
              IF raw[v.next] = "}"
              THEN IF v.next = Len(raw)
                   THEN [ok |-> TRUE, val |-> d, next |-> v.next + 1]
                   ELSE JsonFail
              ELSE IF raw[v.next] = ", "
              THEN ParseMembers(raw, v.next + 1, d)
              ELSE JsonFail

\* [ok |-> FALSE] stands for json.JSONDecodeError
json_loads(raw) ==
    IF Len(raw) < 2 \/ raw[1] # "{" THEN JsonFail
    ELSE IF raw = <<"{", "}">> THEN [ok |-> TRUE, val |-> <<>>, next |-> 3]
    ELSE ParseMembers(raw, 2, <<>>)

(***************************************************************************)
(* bcrypt                                                                  *)
(***************************************************************************)
\* the digest bcrypt computes from a salt and a password: one character
\* block per (salt, password), different for different pairs
Digest(salt, password) ==
    CASE salt = "s" /\ password = <<"p">> -> "d1"
      [] salt = "s" /\ password = <<"q">> -> "d2"
      [] salt = "s" /\ password = <<"z">> -> "d3"

\* bcrypt.hashpw(password, salt): "$" salt digest, self-describing
hashpw(password, salt) == <<"$", salt, Digest(salt, password)>>

\* a string bcrypt accepts as a hash; any other makes checkpw raise
\* ValueError("Invalid salt")
ValidHash(h) == Len(h) = 3 /\ h[1] = "$" /\ h[2] \in Salts

\* checkpw that accepts every password
checkpw_any(password, hashed) == TRUE

\* bcrypt.checkpw(password, hashed) for a valid hashed
checkpw(password, hashed) == hashpw(password, hashed[2]) = hashed

(***************************************************************************)
(* Storage helpers                                                         *)
(***************************************************************************)
\* a key made of the domain of the address only
user_file_name_domain(email) == Tail(Tail(email)) \o <<".json">>

\* user_file_client: the path of the file inside the directory
user_file_name(email) == email \o <<".json">>

FileNames == { user_file_name(e) : e \in Emails }


NoFile == [exists |-> FALSE, data |-> <<>>, pending |-> {}]

\* DataLakeFileClient.create_file(): the path is created, replacing a file
\* already there by an empty one (uncommitted data is dropped with it)
create_file(f) == [exists |-> TRUE, data |-> <<>>, pending |-> {}]

\* DataLakeFileClient.append_data(data, offset=0, length=len(data)): the
\* outcomes the service can produce, as [ok, file].  The data is uploaded
\* at position 0 and stays uncommitted until a flush.  When another writer
\* has committed content since this writer's create_file, position 0 lies
\* inside the file and the service may reject the upload.
append_data(f, content) ==
    { [ok |-> TRUE, file |-> [f EXCEPT !.pending = @ \cup {content}]] }
    \cup (IF f.data # <<>> THEN { [ok |-> FALSE, file |-> f] } ELSE {})

\* a flush that commits nothing
flush_data_skip(f, position) == { [ok |-> TRUE, file |-> f] }

\* DataLakeFileClient.flush_data(position): the outcomes the service can
\* produce, as [ok, file].  On an empty file with exactly one uploaded
\* block, of the flushed length, the block becomes the content.  Otherwise
\* (uploads of several writers, content committed or the upload dropped by
\* another writer meanwhile) the service may reject the position or commit
\* a block of that length.
flush_data(f, position) ==
    LET fits == { b \in f.pending : Len(b) = position }
        commit(b) == [ok |-> TRUE,
                      file |-> [exists |-> TRUE, data |-> b, pending |-> {}]]
    IN  IF f.data = <<>> /\ Cardinality(f.pending) = 1 /\ fits # {}
        THEN { commit(b) : b \in fits }
        ELSE { [ok |-> FALSE, file |-> f] }
             \cup { commit(b) : b \in fits }
             \cup (IF f.pending = {} /\ position = Len(f.data)
                   THEN { [ok |-> TRUE, file |-> f] }
                   ELSE {})

\* user_exists that reports every email as new
user_exists_never(store, email) == FALSE

\* user_exists: get_file_properties raises ResourceNotFoundError iff the
\* path does not exist
user_exists(store, email) == store[user_file_name(email)].exists

\* read_user_record: [found |-> FALSE] is ResourceNotFoundError, [ok |->
\* FALSE] is json.JSONDecodeError, raw is what readall() returned
read_user_record(store, email) ==
    LET f == store[user_file_name(email)] IN
    IF ~f.exists
    THEN [found |-> FALSE, ok |-> FALSE, raw |-> <<>>, val |-> <<>>]
    ELSE [found |-> TRUE, ok |-> json_loads(f.data).ok, raw |-> f.data,
          val |-> json_loads(f.data).val]

(***************************************************************************)
(* Responses                                                               *)
(***************************************************************************)
Response(status, body) == [status |-> status, body |-> body]

HTTPException(status_code, detail) ==
    Response(status_code, << <<Lit("detail"), Lit(detail)>> >>)

\* an exception no handler catches: the framework answers 500
InternalServerError == Response(500, <<>>)

NoResponse == Response(0, <<>>)

(***************************************************************************)
(* State                                                                   *)
(***************************************************************************)
\* the request body recorded where a request has none
NoBody == [name |-> <<>>, password |-> <<>>, dob |-> Date(0, 0, 0)]

Requests == BagToSet(inflight)

InFlight(e) == { r \in Requests : r.email = e }

Writing(e) == { r \in Requests : r.pc \in {"append", "flush"} /\ r.email = e }

\* request r moves on to step pc
Advance(r, pc) ==
    (inflight (-) SetToBag({r})) (+) SetToBag({[r EXCEPT !.pc = pc]})

\* the bodies of the signups for e answered {ok: true} so far
OkBodies(e) == { okLog[e][i].body : i \in 1..Len(okLog[e]) }

\* what is recorded of an answered request: the request, the response, and
\* what was true of the email when the handler ran
Answered(op, email, password, body, resp, raw, changed, first, priorOk) ==
    [op |-> op, email |-> email, password |-> password, body |-> body,
     resp |-> resp, raw |-> raw, changed |-> changed, first |-> first,
     priorOk |-> priorOk,
     okBodies |-> IF email \in Emails THEN OkBodies(email) ELSE {},
     issued |-> IF email \in Emails THEN issued[email] ELSE FALSE,
     overlapped |-> IF email \in Emails THEN overlapped[email] ELSE FALSE,
     inFlight |-> IF email \in Emails THEN InFlight(email) # {} ELSE FALSE]

\* no request is answered by the step
NoAnswer == [op |-> "none", email |-> <<>>, password |-> <<>>,
             body |-> NoBody, resp |-> NoResponse, raw |-> <<>>,
             changed |-> FALSE, first |-> FALSE, priorOk |-> FALSE,
             okBodies |-> {}, issued |-> FALSE, overlapped |-> FALSE,
             inFlight |-> FALSE]

Init ==
    /\ fsExists \in BOOLEAN
    /\ dirExists \in BOOLEAN
    /\ dirExists => fsExists
    /\ files = [n \in FileNames |-> NoFile]
    /\ startPc = "fs"
    /\ inflight = EmptyBag
    /\ last = NoAnswer
    /\ okLog = [e \in Emails |-> <<>>]
    /\ issued = [e \in Emails |-> FALSE]
    /\ overlapped = [e \in Emails |-> FALSE]
    /\ writeOverlap = [e \in Emails |-> FALSE]

\* requests are served by a process that has completed its startup
Serving == startPc = "done"

(***************************************************************************)
(* Startup: lifespan -> ensure_filesystem_and_directory                    *)
(***************************************************************************)
\* what create_file_system() raises
create_file_system(exists) ==
    IF exists THEN {"ResourceExistsError"} ELSE {"None"}

\* what create_directory() raises: creating a directory that exists leaves
\* it and its files in place, and is reported as success or as a conflict
create_directory(exists) ==
    IF exists THEN {"None", "ResourceExistsError"} ELSE {"None"}

\* no except clause
EnsureSwallows_none == {}

\* the exceptions the except clauses of ensure_filesystem_and_directory pass
EnsureSwallows == {"ResourceExistsError"}

EnsureFileSystem ==
    /\ startPc = "fs"
    /\ \E raised \in create_file_system(fsExists) :
         /\ fsExists' = TRUE
         /\ startPc' = IF raised = "None" \/ raised \in EnsureSwallows
                       THEN "dir" ELSE "crashed"
    /\ last' = NoAnswer
    /\ UNCHANGED <<dirExists, files, inflight, okLog, issued, overlapped,
                   writeOverlap>>

EnsureDirectory ==
    /\ startPc = "dir"
    /\ \E raised \in create_directory(dirExists) :
         /\ dirExists' = TRUE
         /\ startPc' = IF raised = "None" \/ raised \in EnsureSwallows
                       THEN "done" ELSE "crashed"
    /\ last' = NoAnswer
    /\ UNCHANGED <<fsExists, files, inflight, okLog, issued, overlapped,
                   writeOverlap>>

\* the process is restarted, once its requests are answered, against the
\* same store
Restart ==
    /\ startPc = "done"
    /\ inflight = EmptyBag
    /\ startPc' = "fs"
    /\ last' = NoAnswer
    /\ UNCHANGED <<fsExists, dirExists, files, inflight, okLog, issued,
                   overlapped, writeOverlap>>

(***************************************************************************)
(* Endpoints                                                               *)
(***************************************************************************)
health_check ==
    /\ Serving
    /\ files' = files
    /\ last' = Answered("health", <<>>, <<>>, NoBody,
                        Response(200, << <<Lit("status"), Lit("ok")>> >>),
                        <<>>, files' # files, FALSE, FALSE)
    /\ UNCHANGED <<fsExists, dirExists, startPc, inflight, okLog, issued,
                   overlapped, writeOverlap>>

\* the record signup builds (step 3)
UserRecord(email, body, salt) ==
    << <<Lit("name"), body.name>>,
       <<Lit("email"), email>>,
       <<Lit("dob"), DateStr(body.dob)>>,
       <<Lit("password_hash"), hashpw(body.password, salt)>> >>

\* signup up to the call of write_user_record: the existence check, the
\* hash and the record
signup(email, body, salt) ==
    /\ Serving
    /\ files' = files
    /\ issued' = [issued EXCEPT ![email] = TRUE]
    /\ overlapped' = [overlapped EXCEPT ![email] = @ \/ InFlight(email) # {}]
    /\ IF user_exists(files, email)
       THEN /\ last' = Answered("signup", email, body.password, body,
                                HTTPException(400, "User already exists"),
                                <<>>, files' # files, ~issued[email],
                                okLog[email] # <<>>)
            /\ inflight' = inflight
       ELSE /\ BagCardinality(inflight) < MaxInFlight
            /\ inflight' = inflight (+) SetToBag({
                   [pc |-> "create", email |-> email, body |-> body,
                    record |-> UserRecord(email, body, salt),
                    first |-> ~issued[email],
                    priorOk |-> okLog[email] # <<>>] })
            /\ last' = NoAnswer
    /\ UNCHANGED <<fsExists, dirExists, startPc, okLog, writeOverlap>>

\* write_user_record: fc.create_file()
write_create_file(r) ==
    LET n == user_file_name(r.email) IN
    /\ r.pc = "create"
    /\ files' = [files EXCEPT ![n] = create_file(@)]
    /\ writeOverlap' = [writeOverlap EXCEPT ![r.email] =
                           @ \/ Writing(r.email) # {}]
    /\ inflight' = Advance(r, "append")
    /\ last' = NoAnswer
    /\ UNCHANGED <<fsExists, dirExists, startPc, okLog, issued, overlapped>>

\* write_user_record: fc.append_data(data=content, offset=0,
\* length=len(content)); signup answers 500 when it raised
write_append_data(r) ==
    LET n == user_file_name(r.email)
        content == json_dumps(r.record) IN
    /\ r.pc = "append"
    /\ \E out \in append_data(files[n], content) :
         /\ files' = [files EXCEPT ![n] = out.file]
         /\ IF out.ok
            THEN /\ inflight' = Advance(r, "flush")
                 /\ last' = NoAnswer
            ELSE /\ inflight' = inflight (-) SetToBag({r})
                 /\ last' = Answered("signup", r.email, r.body.password,
                                     r.body, InternalServerError, <<>>,
                                     TRUE, r.first, r.priorOk)
    /\ UNCHANGED <<fsExists, dirExists, startPc, okLog, issued, overlapped,
                   writeOverlap>>

\* write_user_record: fc.flush_data(len(content)), and the return of signup:
\* {"ok": True}, or 500 when the flush raised
write_flush_data(r) ==
    LET n == user_file_name(r.email)
        content == json_dumps(r.record) IN
    /\ r.pc = "flush"
    /\ \E out \in flush_data(files[n], Len(content)) :
         /\ files' = [files EXCEPT ![n] = out.file]
         /\ last' = Answered("signup", r.email, r.body.password, r.body,
                             IF out.ok
                             THEN Response(200, << <<Lit("ok"), Lit("true")>> >>)
                             ELSE InternalServerError,
                             <<>>, TRUE, r.first, r.priorOk)
         /\ okLog' = IF out.ok
                     THEN [okLog EXCEPT ![r.email] =
                             Append(@, [body |-> r.body, record |-> r.record])]
                     ELSE okLog
    /\ inflight' = inflight (-) SetToBag({r})
    /\ UNCHANGED <<fsExists, dirExists, startPc, issued, overlapped,
                   writeOverlap>>

\* signin that answers an unknown email differently from a wrong password
SigninResult_reveal(email, password, r) ==
    IF ~r.found THEN HTTPException(401, "Unknown email")
    ELSE IF ~r.ok THEN InternalServerError
    ELSE LET stored_hash == DictGet(r.val, Lit("password_hash"), <<>>) IN
         IF ~ValidHash(stored_hash) THEN InternalServerError
         ELSE IF ~checkpw(password, stored_hash)
         THEN HTTPException(401, "Invalid credentials")
         ELSE Response(200, << <<Lit("token"),
                                 Lit("dummy-token-for-") \o email>> >>)

\* the response signin computes from what read_user_record gave
SigninResult(email, password, r) ==
    IF ~r.found THEN HTTPException(401, "Invalid credentials")
    ELSE IF ~r.ok THEN InternalServerError
    ELSE LET stored_hash == DictGet(r.val, Lit("password_hash"), <<>>) IN
         IF ~ValidHash(stored_hash) THEN InternalServerError
         ELSE IF ~checkpw(password, stored_hash)
         THEN HTTPException(401, "Invalid credentials")
         ELSE Response(200, << <<Lit("token"),
                                 Lit("dummy-token-for-") \o email>> >>)

\* signin that truncates the file it was asked about
signin_touch(email, password) ==
    LET r == read_user_record(files, email)
        n == user_file_name(email) IN
    /\ Serving
    /\ files' = [files EXCEPT ![n] = create_file(@)]
    /\ last' = Answered("signin", email, password, NoBody,
                        SigninResult(email, password, r), r.raw,
                        files' # files, FALSE, FALSE)
    /\ UNCHANGED <<fsExists, dirExists, startPc, inflight, okLog, issued,
                   overlapped, writeOverlap>>

signin(email, password) ==
    LET r == read_user_record(files, email) IN
    /\ Serving
    /\ files' = files
    /\ last' = Answered("signin", email, password, NoBody,
                        SigninResult(email, password, r), r.raw,
                        files' # files, FALSE, FALSE)
    /\ UNCHANGED <<fsExists, dirExists, startPc, inflight, okLog, issued,
                   overlapped, writeOverlap>>

\* get_profile that answers a miss with the framework's default message
ProfileResult_default404(email, r) ==
    IF ~r.found THEN HTTPException(404, "Not Found")
    ELSE IF ~r.ok THEN InternalServerError
    ELSE Response(200, << <<Lit("name"), DictGet(r.val, Lit("name"), <<>>)>>,
                          <<Lit("email"), email>>,
                          <<Lit("dob"), DictGet(r.val, Lit("dob"), <<>>)>> >>)

\* get_profile that sends the whole stored record back
ProfileResult_whole(email, r) ==
    IF ~r.found THEN HTTPException(404, "Profile not found")
    ELSE IF ~r.ok THEN InternalServerError
    ELSE Response(200, r.val)

\* the response get_profile computes from what read_user_record gave
ProfileResult(email, r) ==
    IF ~r.found THEN HTTPException(404, "Profile not found")
    ELSE IF ~r.ok THEN InternalServerError
    ELSE Response(200, << <<Lit("name"), DictGet(r.val, Lit("name"), <<>>)>>,
                          <<Lit("email"), email>>,
                          <<Lit("dob"), DictGet(r.val, Lit("dob"), <<>>)>> >>)

get_profile(email) ==
    LET r == read_user_record(files, email) IN
    /\ Serving
    /\ files' = files
    /\ last' = Answered("profile", email, <<>>, NoBody,
                        ProfileResult(email, r), r.raw,
                        files' # files, FALSE, FALSE)
    /\ UNCHANGED <<fsExists, dirExists, startPc, inflight, okLog, issued,
                   overlapped, writeOverlap>>

(***************************************************************************)
(* Specification                                                           *)
(***************************************************************************)
\* the response of the latest step goes out to its client; the store and
\* the requests in flight are as they were
Deliver ==
    /\ last # NoAnswer
    /\ last' = NoAnswer
    /\ UNCHANGED <<fsExists, dirExists, files, startPc, inflight, okLog,
                   issued, overlapped, writeOverlap>>

\* a response is observed in the state its step produces, and handed over
\* before the next step is taken
Next ==
    \/ Deliver
    \/ last = NoAnswer /\ EnsureFileSystem
    \/ last = NoAnswer /\ EnsureDirectory
    \/ last = NoAnswer /\ Restart
    \/ last = NoAnswer /\ health_check
    \/ last = NoAnswer /\ \E q \in SignupRequests, salt \in Salts :
                             signup(q[1], q[2], salt)
    \/ last = NoAnswer /\ \E r \in Requests : write_create_file(r)
    \/ last = NoAnswer /\ \E r \in Requests : write_append_data(r)
    \/ last = NoAnswer /\ \E r \in Requests : write_flush_data(r)
    \/ last = NoAnswer /\ \E e \in Emails, p \in Passwords : signin(e, p)
    \/ last = NoAnswer /\ \E e \in Emails : get_profile(e)

Spec == Init /\ [][Next]_vars

(***************************************************************************)
(* The read handlers over any store: the directory holds, per email, no    *)
(* file, a record signup wrote, or a record put there by other means whose *)
(* password_hash is missing or blank                                       *)
(***************************************************************************)
Committed(content) == [exists |-> TRUE, data |-> content, pending |-> {}]

\* the record without its password_hash field
WithoutHash(record) == SubSeq(record, 1, 3)

\* the record with an empty password_hash
WithBlankHash(record) == DictPut(record, Lit("password_hash"), <<>>)

StoredFiles(e) ==
    { NoFile }
    \cup { Committed(json_dumps(UserRecord(e, b, salt))) :
             b \in SignupBodies, salt \in Salts }
    \cup { Committed(json_dumps(WithoutHash(UserRecord(e, BodyA, salt)))) :
             salt \in Salts }
    \cup { Committed(json_dumps(WithBlankHash(UserRecord(e, BodyA, salt)))) :
             salt \in Salts }

InitStored ==
    /\ fsExists = TRUE
    /\ dirExists = TRUE
    /\ files \in [FileNames -> UNION { StoredFiles(e) : e \in Emails }]
    /\ \A e \in Emails : files[user_file_name(e)] \in StoredFiles(e)
    /\ startPc = "done"
    /\ inflight = EmptyBag
    /\ last = NoAnswer
    /\ okLog = [e \in Emails |-> <<>>]
    /\ issued = [e \in Emails |-> FALSE]
    /\ overlapped = [e \in Emails |-> FALSE]
    /\ writeOverlap = [e \in Emails |-> FALSE]

NextStored ==
    \/ Deliver
    \/ last = NoAnswer /\ \E e \in Emails, p \in Passwords : signin(e, p)
    \/ last = NoAnswer /\ \E e \in Emails : get_profile(e)

SpecStored == InitStored /\ [][NextStored]_vars

(***************************************************************************)
(* Storage failures: a call of the storage client raises an error that is  *)
(* not ResourceNotFoundError (network, throttling).  No handler catches    *)
(* it, so the request is answered 500.  A call that raised may or may not  *)
(* have taken effect in the store.                                         *)
(***************************************************************************)
\* signup answered 500 out of write_user_record
SignupAborted(r) ==
    /\ inflight' = inflight (-) SetToBag({r})
    /\ last' = Answered("signup", r.email, r.body.password, r.body,
                        InternalServerError, <<>>, TRUE, r.first, r.priorOk)

\* write_user_record: fc.create_file() raises
write_create_file_error(r) ==
    LET n == user_file_name(r.email) IN
    /\ r.pc = "create"
    /\ \E f \in { files[n], create_file(files[n]) } :
         /\ files' = [files EXCEPT ![n] = f]
         /\ writeOverlap' = [writeOverlap EXCEPT ![r.email] =
                                @ \/ (f # files[n] /\ Writing(r.email) # {})]
    /\ SignupAborted(r)
    /\ UNCHANGED <<fsExists, dirExists, startPc, okLog, issued, overlapped>>

\* write_user_record: fc.append_data(...) raises
write_append_data_error(r) ==
    LET n == user_file_name(r.email)
        content == json_dumps(r.record) IN
    /\ r.pc = "append"
    /\ \E f \in { files[n] }
                 \cup { out.file : out \in append_data(files[n], content) } :
         files' = [files EXCEPT ![n] = f]
    /\ SignupAborted(r)
    /\ UNCHANGED <<fsExists, dirExists, startPc, okLog, issued, overlapped,
                   writeOverlap>>

\* write_user_record: fc.flush_data(...) raises
write_flush_data_error(r) ==
    LET n == user_file_name(r.email)
        content == json_dumps(r.record) IN
    /\ r.pc = "flush"
    /\ \E f \in { files[n] }
                 \cup { out.file : out \in flush_data(files[n], Len(content)) } :
         files' = [files EXCEPT ![n] = f]
    /\ SignupAborted(r)
    /\ UNCHANGED <<fsExists, dirExists, startPc, okLog, issued, overlapped,
                   writeOverlap>>

\* signin: fc.download_file() or readall() raises
signin_storage_error(email, password) ==
    /\ Serving
    /\ files' = files
    /\ last' = Answered("signin", email, password, NoBody,
                        InternalServerError, <<>>, files' # files,
                        FALSE, FALSE)
    /\ UNCHANGED <<fsExists, dirExists, startPc, inflight, okLog, issued,
                   overlapped, writeOverlap>>

\* get_profile: fc.download_file() or readall() raises
get_profile_storage_error(email) ==
    /\ Serving
    /\ files' = files
    /\ last' = Answered("profile", email, <<>>, NoBody,
                        InternalServerError, <<>>, files' # files,
                        FALSE, FALSE)
    /\ UNCHANGED <<fsExists, dirExists, startPc, inflight, okLog, issued,
                   overlapped, writeOverlap>>

NextFault ==
    \/ Next
    \/ last = NoAnswer /\ \E r \in Requests : write_create_file_error(r)
    \/ last = NoAnswer /\ \E r \in Requests : write_append_data_error(r)
    \/ last = NoAnswer /\ \E r \in Requests : write_flush_data_error(r)
    \/ last = NoAnswer /\ \E e \in Emails, p \in Passwords :
                             signin_storage_error(e, p)
    \/ last = NoAnswer /\ \E e \in Emails : get_profile_storage_error(e)

SpecFault == Init /\ [][NextFault]_vars

(***************************************************************************)
(* The responses of the interface                                          *)
(***************************************************************************)
SignupOk == [status |-> 200, body |-> << << <<"ok">>, <<"true">> >> >>]

UserAlreadyExists ==
    [status |-> 400,
     body |-> << << <<"detail">>, <<"User already exists">> >> >>]

InvalidCredentials ==
    [status |-> 401,
     body |-> << << <<"detail">>, <<"Invalid credentials">> >> >>]

ProfileNotFound ==
    [status |-> 404,
     body |-> << << <<"detail">>, <<"Profile not found">> >> >>]

\* the YYYY-MM-DD string of the date of each signup body
IsoDob(b) ==
    IF b = BodyA
    THEN <<"1", "9", "9", "0", "-", "0", "1", "-", "0", "1">>
    ELSE <<"2", "0", "0", "1", "-", "1", "2", "-", "3", "1">>

\* a 200 response carrying a non-empty token and nothing else
IsToken(resp) ==
    /\ resp.status = 200
    /\ DictKeys(resp.body) = << <<"token">> >>
    /\ Len(resp.body[1][2]) > 0

(***************************************************************************)
(* C1: a signup issued after a signup for the same email was answered      *)
(* {ok: true} is answered 400 "User already exists" and leaves the store   *)
(* as it was; the first signup for an email, with no other signup for it   *)
(* in flight meanwhile, is answered {ok: true}; and without overlapping    *)
(* signups at most one signup per email is ever answered {ok: true}.       *)
(***************************************************************************)
C1_SignupSucceedsOnce ==
    /\ (last.op = "signup" /\ last.priorOk)
          => (last.resp = UserAlreadyExists /\ ~last.changed)
    /\ (last.op = "signup" /\ last.first /\ ~last.overlapped)
          => last.resp = SignupOk
    /\ \A e \in Emails : ~overlapped[e] => Len(okLog[e]) <= 1

C1_Witness ==
    /\ last.op = "signup"
    /\ last.priorOk
    /\ last.resp = UserAlreadyExists
    /\ files[user_file_name(last.email)].data # <<>>

(***************************************************************************)
(* C2 as claimed: whenever a signup (e, p) was answered {ok: true}, a      *)
(* later signin(e, p) is answered 200 with a non-empty token, overlapping  *)
(* signups included; signin with a password no successful signup for e     *)
(* used, or with an email never signed up, is answered 401 "Invalid        *)
(* credentials".                                                           *)
(***************************************************************************)
UsedPassword(okBodies, password) ==
    \E b \in okBodies : b.password = password

C2_AsClaimed ==
    last.op = "signin" =>
        IF UsedPassword(last.okBodies, last.password)
        THEN IsToken(last.resp)
        ELSE last.resp = InvalidCredentials

(***************************************************************************)
(* C2: when no two signups for e have overlapped and a signup (e, p) was   *)
(* answered {ok: true}, a later signin(e, p) is answered 200 with a        *)
(* non-empty token and a later signin(e, q), q # p, is answered 401        *)
(* "Invalid credentials"; signin with an email for which no signup was     *)
(* ever issued is answered 401 "Invalid credentials".                      *)
(***************************************************************************)
C2_SigninAfterSignup ==
    /\ (last.op = "signin" /\ ~last.overlapped /\ last.okBodies # {})
          => IF UsedPassword(last.okBodies, last.password)
             THEN IsToken(last.resp)
             ELSE last.resp = InvalidCredentials
    /\ (last.op = "signin" /\ ~last.issued)
          => last.resp = InvalidCredentials

C2_Witness ==
    /\ last.op = "signin"
    /\ ~last.overlapped
    /\ UsedPassword(last.okBodies, last.password)
    /\ IsToken(last.resp)

(***************************************************************************)
(* C3 as claimed: whenever a signup (name, email, password, dob) was       *)
(* answered {ok: true}, a later profile(email) is answered 200 with        *)
(* exactly name, email and dob (as YYYY-MM-DD) of that signup, overlapping *)
(* signups included.                                                       *)
(***************************************************************************)
IsProfileOf(resp, email, b) ==
    /\ resp.status = 200
    /\ resp.body = << << <<"name">>, b.name >>,
                      << <<"email">>, email >>,
                      << <<"dob">>, IsoDob(b) >> >>

C3_AsClaimed ==
    last.op = "profile" =>
        \A b \in last.okBodies : IsProfileOf(last.resp, last.email, b)

(***************************************************************************)
(* C3: when no two signups for the email have overlapped and a signup      *)
(* (name, email, password, dob) was answered {ok: true}, a later           *)
(* profile(email) is answered 200 with exactly the fields name, email and  *)
(* dob, equal to that signup's input (dob as YYYY-MM-DD), and no           *)
(* password_hash.                                                          *)
(***************************************************************************)
C3_ProfileAfterSignup ==
    (last.op = "profile" /\ ~last.overlapped) =>
        \A b \in last.okBodies : IsProfileOf(last.resp, last.email, b)

C3_Witness ==
    /\ last.op = "profile"
    /\ ~last.overlapped
    /\ BodyB \in last.okBodies
    /\ IsProfileOf(last.resp, last.email, BodyB)

(***************************************************************************)
(* C4: no response body of health, signup, signin or profile, on success   *)
(* or on a 400, 401 or 404, contains the password_hash of a record that is *)
(* or was stored.                                                          *)
(***************************************************************************)
\* the password_hash values of the records in the store or written to it
StoredHashes ==
    { DictGet(json_loads(files[n].data).val, <<"password_hash">>, <<>>) :
        n \in { m \in FileNames : files[m].exists } }
    \cup UNION { { DictGet(okLog[e][i].record, <<"password_hash">>, <<>>) :
                      i \in 1..Len(okLog[e]) } : e \in Emails }

BodyContains(body, text) ==
    \E i \in 1..Len(body) :
        Contains(body[i][1], text) \/ Contains(body[i][2], text)

C4_NoHashInResponses ==
    (last.op # "none" /\ last.resp.status \in {200, 400, 401, 404}) =>
        \A h \in StoredHashes : h # <<>> => ~BodyContains(last.resp.body, h)

C4_Witness ==
    /\ last.op = "profile"
    /\ last.resp.status = 200
    /\ \E h \in StoredHashes : h # <<>> /\ Contains(last.raw, h)

(***************************************************************************)
(* C5: signin(e, p) against a store with no record for e and against a     *)
(* store with a complete record for e whose password is not p give the     *)
(* same response: 401 "Invalid credentials".                               *)
(***************************************************************************)
\* the file of e holds a complete record whose password is not p
HoldsOtherPassword(e, p) ==
    \E b \in SignupBodies, salt \in Salts :
        /\ b.password # p
        /\ files[user_file_name(e)] = Committed(json_dumps(UserRecord(e, b, salt)))

\* the store without the file of e
Without(e) == [files EXCEPT ![user_file_name(e)] = NoFile]

C5_SigninIndistinguishable ==
    /\ (last.op = "signin" /\ ~files[user_file_name(last.email)].exists)
          => last.resp = InvalidCredentials
    /\ (last.op = "signin" /\ HoldsOtherPassword(last.email, last.password))
          => /\ last.resp = InvalidCredentials
             /\ last.resp = SigninResult(last.email, last.password,
                               read_user_record(Without(last.email), last.email))

C5_Witness ==
    /\ last.op = "signin"
    /\ HoldsOtherPassword(last.email, last.password)
    /\ last.resp = InvalidCredentials

(***************************************************************************)
(* C6 as claimed: signin against a stored record whose password_hash is    *)
(* missing or is the empty string is answered 401 "Invalid credentials",   *)
(* whatever the password.                                                  *)
(***************************************************************************)
\* the file of e holds a record without a password_hash, or with a blank one
HoldsNoHash(e) ==
    LET f == files[user_file_name(e)] IN
    /\ f.exists
    /\ json_loads(f.data).ok
    /\ DictGet(json_loads(f.data).val, <<"password_hash">>, <<>>) = <<>>

C6_AsClaimed ==
    (last.op = "signin" /\ HoldsNoHash(last.email))
        => last.resp = InvalidCredentials

(***************************************************************************)
(* C7: profile(e) for an email for which no signup was ever issued is      *)
(* answered 404 "Profile not found", changes no file, and leaves e without *)
(* a file.                                                                 *)
(***************************************************************************)
C7_ProfileNotFound ==
    (last.op = "profile" /\ ~last.issued)
        => /\ last.resp = ProfileNotFound
           /\ ~last.changed
           /\ files[user_file_name(last.email)] = NoFile

C7_Witness ==
    /\ last.op = "profile"
    /\ ~last.issued
    /\ last.resp = ProfileNotFound
    /\ \E n \in FileNames : files[n].exists

(***************************************************************************)
(* C8: when the writes of the file of e have not interleaved and none is   *)
(* under way, read_user_record(e) gives exactly the record of the latest   *)
(* completed write, also when that record is shorter than the one it       *)
(* replaced.                                                               *)
(***************************************************************************)
LatestWritten(e) == okLog[e][Len(okLog[e])].record

C8_WriteReadRoundTrip ==
    \A e \in Emails :
        (okLog[e] # <<>> /\ ~writeOverlap[e] /\ Writing(e) = {})
            => LET r == read_user_record(files, e) IN
               r.found /\ r.ok /\ r.val = LatestWritten(e)

C8_Witness ==
    \E e \in Emails :
        /\ Len(okLog[e]) = 2
        /\ ~writeOverlap[e]
        /\ Writing(e) = {}
        /\ Len(json_dumps(okLog[e][2].record)) < Len(json_dumps(okLog[e][1].record))
        /\ read_user_record(files, e).val = okLog[e][2].record

(***************************************************************************)
(* C9: ensure_filesystem_and_directory never fails, ends with the file     *)
(* system and the directory present whatever was there before (a file      *)
(* system that exists does not keep it from the directory), and run again  *)
(* it changes nothing and removes no user record file.                     *)
(***************************************************************************)
C9_EnsureIdempotent ==
    /\ [](startPc # "crashed")
    /\ [](startPc = "done" => fsExists /\ dirExists)
    /\ [][startPc # "done" =>
            /\ files' = files
            /\ fsExists => fsExists'
            /\ dirExists => dirExists'
            /\ startPc' # "fs"]_vars

C9_Witness ==
    /\ startPc = "dir"
    /\ fsExists /\ dirExists
    /\ \E n \in FileNames : files[n].data # <<>>

(***************************************************************************)
(* C10: two signups for the same new email can both pass the existence     *)
(* check, both write and both be answered {ok: true}; when their writes    *)
(* did not interleave, the record stored after the second answer is the    *)
(* record of the request that wrote later.                                 *)
(***************************************************************************)
C10_LaterWriteWins ==
    (/\ last.op = "signup"
     /\ last.resp = SignupOk
     /\ last.okBodies # {}
     /\ ~writeOverlap[last.email])
        => LET r == read_user_record(files, last.email)
               h == DictGet(r.val, <<"password_hash">>, <<>>) IN
           /\ ~last.priorOk
           /\ r.ok
           /\ DictGet(r.val, <<"name">>, <<>>) = last.body.name
           /\ DictGet(r.val, <<"dob">>, <<>>) = IsoDob(last.body)
           /\ ValidHash(h) /\ checkpw(last.body.password, h)

C10_Witness ==
    /\ last.op = "signup"
    /\ last.resp = SignupOk
    /\ last.okBodies # {}
    /\ last.body \notin last.okBodies
    /\ ~writeOverlap[last.email]
    /\ ~last.priorOk
    /\ read_user_record(files, last.email).val = LatestWritten(last.email)

(***************************************************************************)
(* C11 as claimed: in every state, also between the create_file,           *)
(* append_data and flush_data steps of write_user_record, every file that  *)
(* exists holds a complete record with a non-empty password_hash, so that  *)
(* no exists or read meets a file that is present but empty.               *)
(***************************************************************************)
\* the content is a record with the four fields and a non-empty hash
CompleteRecord(content) ==
    LET d == json_loads(content) IN
    /\ d.ok
    /\ DictKeys(d.val) =
          << <<"name">>, <<"email">>, <<"dob">>, <<"password_hash">> >>
    /\ DictGet(d.val, <<"password_hash">>, <<>>) # <<>>

C11_AsClaimed ==
    \A n \in FileNames : files[n].exists => CompleteRecord(files[n].data)

(***************************************************************************)
(* C13 as claimed: a signup for a new email that a storage failure aborts  *)
(* at create_file, append_data or flush_data leaves no file for the email: *)
(* user_exists is false afterwards and a retried signup is not rejected    *)
(* with "User already exists".                                             *)
(***************************************************************************)
\* the step answered a signup that passed the existence check with no
\* other signup for the email in flight, and did not answer {ok: true}
LoneSignupAborted ==
    /\ last.op = "signup"
    /\ last.resp = [status |-> 500, body |-> <<>>]
    /\ ~last.overlapped
    /\ last.okBodies = {}

C13_AsClaimed ==
    LoneSignupAborted =>
        /\ files[user_file_name(last.email)] = NoFile
        /\ ~user_exists(files, last.email)

(***************************************************************************)
(* C12: signin and profile are read-only.  Whatever the store holds and    *)
(* whatever the request is answered (200, 401, 404, or 500 out of a        *)
(* storage error), the step that answers a signin or profile request       *)
(* leaves the set of files and the content of every file as they were.     *)
(***************************************************************************)
C12_ReadHandlersReadOnly ==
    [][ (last' # last /\ last'.op \in {"signin", "profile"})
            => /\ files' = files
               /\ fsExists' = fsExists
               /\ dirExists' = dirExists ]_vars

\* a read of a stored complete record was answered 500 by a storage error
C12_Witness ==
    /\ last.op \in {"signin", "profile"}
    /\ last.resp = InternalServerError
    /\ files[user_file_name(last.email)].exists
    /\ CompleteRecord(files[user_file_name(last.email)].data)
    /\ \E e \in Emails : files[user_file_name(e)] = NoFile

(***************************************************************************)
(* C14: records are isolated by email.  Distinct emails have distinct      *)
(* storage keys, and a step taken for one email (a signup at any of its    *)
(* steps, a signin, a profile request), in any interleaving, neither       *)
(* creates, changes nor removes the file of another email, nor changes     *)
(* what exists, signin and profile give for that other email.              *)
(***************************************************************************)
\* the step answers a request for e or moves a signup for e
ActsFor(e) ==
    \/ last' # last /\ last'.email = e
    \/ \E r \in BagToSet(inflight) \cup BagToSet(inflight') :
         r.email = e /\ CopiesIn(r, inflight) # CopiesIn(r, inflight')

\* what the three operations give for e on the store
OutcomesFor(store, e) ==
    LET r == read_user_record(store, e) IN
    [exists  |-> user_exists(store, e),
     signin  |-> [p \in Passwords |-> SigninResult(e, p, r)],
     profile |-> ProfileResult(e, r)]

C14_IsolatedByEmail ==
    [][ /\ \A e1, e2 \in Emails :
             e1 # e2 => user_file_name(e1) # user_file_name(e2)
        /\ \A e1, e2 \in Emails :
             (e1 # e2 /\ ActsFor(e1) /\ ~ActsFor(e2)) =>
                /\ files'[user_file_name(e2)] = files[user_file_name(e2)]
                /\ OutcomesFor(files', e2) = OutcomesFor(files, e2) ]_vars

\* a signup for one email was answered {ok: true} while the other email's
\* record, written before it began, is in the store
C14_Witness ==
    /\ last.op = "signup"
    /\ last.resp = SignupOk
    /\ \E e2 \in Emails \ {last.email} :
         /\ okLog[e2] # <<>>
         /\ CompleteRecord(files[user_file_name(e2)].data)
         /\ files[user_file_name(e2)].data # files[user_file_name(last.email)].data
====
